---------------------------- MODULE Spec2Model ----------------------------
(***************************************************************************)
(* Model of the gesture-driven scene: App.tsx (camera/detector setup and   *)
(* the detect loop) and components/ThreeScene.tsx (the imperative handle   *)
(* updateHandInteraction / addMemory and the per-frame animate callback).  *)
(*                                                                         *)
(* Number representation (JavaScript numbers are IEEE doubles):            *)
(*   - normalised image coordinates (landmarks): integer millionths;       *)
(*   - scene coordinates (targetHandPos, currentHandPos, tPos): integer    *)
(*     multiples of 2^-22; every double operation rounds its exact result  *)
(*     to this grid (round to nearest, ties to even), and a store into the *)
(*     Float32Array keeps 24 significant bits (Fround), which on this grid *)
(*     is exactly Math.fround;                                             *)
(*   - rotations: integer micro-radians;                                   *)
(*   - opacity and point size: thousandths; clock time: milliseconds.      *)
(*                                                                         *)
(* The vortex particle positions (ThreeScene.tsx 158-168) and the vertical *)
(* bob of a panel (line 194) are written by animate and read by nothing    *)
(* but the renderer; they need sin/cos and are not part of the state here. *)
(***************************************************************************)
EXTENDS Integers, Sequences, FiniteSets, TLC

\* ------------------------------------------------------------- bounds
\* Frames, delivered samples and addMemory calls explored by Spec.
MaxFrames == 5
MaxSamples == 2
MaxLoads == 1
\* Frames, addMemory calls and half seconds of clock time explored by SpecMemory.
MemFrames == 2
MemLoads == 2
MemTicks == 4
\* Extra frames past the trail length explored by SpecTrail, and its samples.
\* Samples reach SpecTrail only while at most TrailLead frames have run.
TrailExtra == 2
TrailSamples == 1
TrailLead == 2
\* Samples explored by the fair specification SpecLive.
LiveSamples == 1

\* ------------------------------------------------------------- arithmetic
Abs(n) == IF n < 0 THEN -n ELSE n

\* n / d rounded to the nearest integer, ties to even (d > 0).
RoundDiv(n, d) ==
  LET q == n \div d
      r == n % d
  IN IF 2 * r > d \/ (2 * r = d /\ q % 2 = 1) THEN q + 1 ELSE q

\* Scene grid: one scene unit is 2^22 grid steps.
Grid == 2 ^ 22

\* Spacing, in grid steps, of the single-precision numbers around magnitude m:
\* 24 significant bits are kept.
RECURSIVE F32Spacing(_)
F32Spacing(m) == IF m < 2 ^ 24 THEN 1 ELSE 2 * F32Spacing(m \div 2)

\* A store into a Float32Array element: round to single precision.
Fround(n) == LET s == F32Spacing(Abs(n)) IN RoundDiv(n, s) * s

\* A product of millionths brought onto the scene grid: m * 2^22 / 10^6,
\* i.e. m * 65536 / 15625, split so that no intermediate exceeds 32 bits.
MicroToGrid(m) ==
  LET q == m \div 15625
      r == m % 15625
  IN q * 65536 + RoundDiv(r * 65536, 15625)

\* ---- exact squares and their comparison (numbers beyond 32 bits) ----
\* A natural number as little-endian limbs base 10^4.
Base == 10 ^ 4

RECURSIVE BigNorm(_, _)
\* Propagate carries through column sums cols; carry is the incoming carry.
BigNorm(cols, carry) ==
  IF cols = << >>
  THEN IF carry = 0 THEN << >> ELSE <<carry % Base>> \o BigNorm(<< >>, carry \div Base)
  ELSE LET v == Head(cols) + carry
       IN <<v % Base>> \o BigNorm(Tail(cols), v \div Base)

RECURSIVE BigTrim(_)
BigTrim(b) == IF b # << >> /\ b[Len(b)] = 0 THEN BigTrim(SubSeq(b, 1, Len(b) - 1)) ELSE b

BigOf(cols) == BigTrim(BigNorm(cols, 0))

\* a * a for |a| < 2^31.
BigSq(a) ==
  LET m == Abs(a)
      a0 == m % Base
      a1 == (m \div Base) % Base
      a2 == m \div (Base * Base)
  IN BigOf(<<a0 * a0, 2 * a0 * a1, a1 * a1 + 2 * a0 * a2, 2 * a1 * a2, a2 * a2>>)

BigLimb(b, i) == IF i <= Len(b) THEN b[i] ELSE 0

BigAdd(b, c) ==
  LET n == IF Len(b) > Len(c) THEN Len(b) ELSE Len(c)
  IN BigOf([i \in 1..n |-> BigLimb(b, i) + BigLimb(c, i)])

\* b * k for 0 <= k <= 10^4.
BigScale(b, k) == BigOf([i \in 1..Len(b) |-> b[i] * k])

RECURSIVE BigLessFrom(_, _, _)
BigLessFrom(b, c, i) ==
  IF i = 0 THEN FALSE
  ELSE IF b[i] # c[i] THEN b[i] < c[i]
  ELSE BigLessFrom(b, c, i - 1)

BigLess(b, c) ==
  IF Len(b) # Len(c) THEN Len(b) < Len(c) ELSE BigLessFrom(b, c, Len(b))

BigLeq(b, c) == b = c \/ BigLess(b, c)


\* ------------------------------------------------------------- inputs
\* A landmark is a point [x, y] in millionths of the image width/height.
Pt(px, py) == [x |-> px, y |-> py]

\* The 21 landmarks of one detected hand; those the detect loop does not read
\* get distinct filler values.
MkHand(thumb, index, palm) ==
  [i \in 0..20 |->
     IF i = 4 THEN thumb
     ELSE IF i = 8 THEN index
     ELSE IF i = 9 THEN palm
     ELSE Pt(100000 + 10000 * i, 900000 - 10000 * i)]

\* Thumb and index tips exactly 0.06 apart, horizontally; palm at the centre.
HandAtThreshold == MkHand(Pt(500000, 500000), Pt(560000, 500000), Pt(500000, 500000))
\* Tips 0.059999 apart; palm up and to the right.
HandJustBelow == MkHand(Pt(500000, 500000), Pt(559999, 500000), Pt(900000, 100000))
\* Tips exactly 0.06 apart on a diagonal (0.036, 0.048); same palm as HandJustBelow.
HandDiagonal == MkHand(Pt(400000, 400000), Pt(436000, 448000), Pt(900000, 100000))
\* Tips just under 0.06 apart on a diagonal; palm at the centre.
HandDiagonalBelow == MkHand(Pt(400000, 400000), Pt(435999, 448000), Pt(500000, 500000))

Hands == {HandAtThreshold, HandJustBelow, HandDiagonal, HandDiagonalBelow}

NoLandmarks == [i \in {} |-> Pt(0, 0)]
NoHand == [detected |-> FALSE, landmarks |-> NoLandmarks]
HandResult(h) == [detected |-> TRUE, landmarks |-> h]
\* What handTrackingService.detect() may return.
DetectResults == {NoHand} \cup {HandResult(h) : h \in Hands}

\* Math.random() draws of addMemory: angle (milli-radians), radius and height
\* (thousandths of a scene unit).
Placements ==
  { [angle |-> 0, radius |-> 12000, height |-> -5000],
    [angle |-> 3142, radius |-> 16000, height |-> 19000] }

\* Time that may pass between two callbacks, in milliseconds.
TickSteps == {500, 1000}
MaxTime == MemTicks * 500

\* ------------------------------------------------------------- state
VARIABLES
  \* App.tsx
  setupPc,          \* position of setupCV
  camError,         \* the camError state
  handDetected,     \* the handDetected state
  \* ThreeScene.tsx
  targetHandPos, currentHandPos, isPinchingRef,
  rotation,         \* mainGroupRef.current.rotation (x, y)
  tPos,             \* the trail's Float32Array, indices 0 .. trailCount*3-1
  vMat,             \* the vortex material's opacity and size
  memories,         \* memoriesGroupRef.current.children, in insertion order
  loads,            \* texture loads started by addMemory: id -> state
  clockRunning,     \* THREE.Clock.running
  elapsed,          \* what clock.getElapsedTime() returns now
  \* history (written by no code; read by the properties only)
  lastOp,           \* the callback that ran last
  frames,           \* animate frames run (where frames are counted)
  frameParity,      \* flips on every animate frame
  delivered,        \* updateHandInteraction calls so far
  lastSample,       \* arguments of the last updateHandInteraction call
  lastHand,         \* landmarks of the last detected hand
  sinceFrame,       \* updateHandInteraction calls since the previous frame (at most 2 counted)
  consumed,         \* sinceFrame as the last frame found it
  held,             \* frames run since targetHandPos was last written (at most MaxFrames counted)
  heldStart,        \* currentHandPos when targetHandPos was last written
  pointerHist,      \* currentHandPos after each counted frame, newest first, last trailCount+1
  prevVMat          \* vMat before the last frame

appVars == <<setupPc, camError, handDetected>>
gestureVars == <<targetHandPos, isPinchingRef, rotation>>
frameVars == <<currentHandPos, tPos, vMat>>
memoryVars == <<memories, loads>>
histVars == <<lastOp, frames, frameParity, delivered, lastSample, lastHand,
              sinceFrame, consumed, held, heldStart, pointerHist, prevVMat>>
vars == <<appVars, gestureVars, frameVars, memoryVars, clockRunning, elapsed, histVars>>

\* ------------------------------------------------------------- constants of the code
trailCount == 100
Vec(vx, vy, vz) == [x |-> vx, y |-> vy, z |-> vz]
Origin == Vec(0, 0, 0)
NoSample == [x |-> -1, y |-> -1, pinching |-> FALSE]

\* new THREE.PointsMaterial({ size: 0.12, opacity: 0.4 })
VMatInit == [opacity |-> 400, size |-> 120]

Init ==
  /\ setupPc = "getUserMedia"
  /\ camError = "null"
  /\ handDetected = FALSE
  /\ targetHandPos = Origin
  /\ currentHandPos = Origin
  /\ isPinchingRef = FALSE
  /\ rotation = [x |-> 0, y |-> 0]
  /\ tPos = [i \in 0..(trailCount * 3 - 1) |-> 0]
  /\ vMat = VMatInit
  /\ memories = << >>
  /\ loads = << >>
  /\ clockRunning = FALSE
  /\ elapsed = 0
  /\ lastOp = "mount"
  /\ frames = 0
  /\ frameParity = 0
  /\ delivered = 0
  /\ lastSample = NoSample
  /\ lastHand = NoLandmarks
  /\ sinceFrame = 0
  /\ consumed = 0
  /\ held = 0
  /\ heldStart = Origin
  /\ pointerHist = << >>
  /\ prevVMat = VMatInit

\* ------------------------------------------------------------- updateHandInteraction
\* targetHandPos.current.set((x - 0.5) * 50, (0.5 - y) * 40, 10)
SceneTarget(x, y) ==
  Vec(MicroToGrid((x - 500000) * 50), MicroToGrid((500000 - y) * 40), 10 * Grid)

\* rotation.x += (targetRX - rotation.x) * 0.05, and the same for y, with
\* targetRX = (y - 0.5) * 0.3 and targetRY = (x - 0.5) * 0.6.
NudgeRotation(rot, x, y) ==
  LET targetRX == RoundDiv((y - 500000) * 3, 10)
      targetRY == RoundDiv((x - 500000) * 6, 10)
  IN [x |-> rot.x + RoundDiv(targetRX - rot.x, 20),
      y |-> rot.y + RoundDiv(targetRY - rot.y, 20)]

\* Variant: a sample that arrives while an earlier one is still unconsumed by
\* a frame is dropped (first write wins).
UpdateFirstWins(x, y, isPinching) ==
  /\ targetHandPos' = IF sinceFrame > 0 THEN targetHandPos ELSE SceneTarget(x, y)
  /\ isPinchingRef' = IF sinceFrame > 0 THEN isPinchingRef ELSE isPinching
  /\ rotation' = NudgeRotation(rotation, x, y)
  /\ delivered' = delivered + 1
  /\ lastSample' = [x |-> x, y |-> y, pinching |-> isPinching]
  /\ sinceFrame' = IF sinceFrame < 2 THEN sinceFrame + 1 ELSE sinceFrame
  /\ held' = 0
  /\ heldStart' = currentHandPos

UpdateHandInteraction(x, y, isPinching) ==
  /\ targetHandPos' = SceneTarget(x, y)
  /\ isPinchingRef' = isPinching
  /\ rotation' = NudgeRotation(rotation, x, y)
  /\ delivered' = delivered + 1
  /\ lastSample' = [x |-> x, y |-> y, pinching |-> isPinching]
  /\ sinceFrame' = IF sinceFrame < 2 THEN sinceFrame + 1 ELSE sinceFrame
  /\ held' = 0
  /\ heldStart' = currentHandPos

\* ------------------------------------------------------------- detectLoop
\* distance = Math.sqrt(dx^2 + dy^2); isPinching = distance < 0.06.  Both sides
\* are non-negative, so the comparison is made on the squares, exactly.
PinchThreshold == 60000

\* Variant: the comparison is <= instead of <.
IsPinchingLeq(thumbTip, indexTip) ==
  BigLeq(BigAdd(BigSq(thumbTip.x - indexTip.x), BigSq(thumbTip.y - indexTip.y)),
         BigSq(PinchThreshold))

IsPinching(thumbTip, indexTip) ==
  BigLess(BigAdd(BigSq(thumbTip.x - indexTip.x), BigSq(thumbTip.y - indexTip.y)),
          BigSq(PinchThreshold))

\* The sample the loop forwards for a detected hand.
PalmCenter(landmarks) == landmarks[9]
ThumbTip(landmarks) == landmarks[4]
IndexTip(landmarks) == landmarks[8]

\* Variant: a missing hand retracts the pointer to the origin and clears the pinch.
NoHandBranchReset ==
  /\ handDetected' = FALSE
  /\ lastOp' = "detectNoHand"
  /\ targetHandPos' = Origin
  /\ isPinchingRef' = FALSE
  /\ UNCHANGED <<rotation, delivered, lastSample, lastHand, sinceFrame, held, heldStart>>

\* The else branch: no hand in this iteration.
NoHandBranch ==
  /\ handDetected' = FALSE
  /\ lastOp' = "detectNoHand"
  /\ UNCHANGED <<gestureVars, delivered, lastSample, lastHand, sinceFrame, held, heldStart>>

\* The then branch: a hand was detected.
HandBranch(landmarks) ==
  /\ handDetected' = TRUE
  /\ UpdateHandInteraction(PalmCenter(landmarks).x, PalmCenter(landmarks).y,
                           IsPinching(ThumbTip(landmarks), IndexTip(landmarks)))
  /\ lastHand' = landmarks
  /\ lastOp' = "detectHand"

\* One run of detectLoop's body with what detect() returned; the loop then
\* registers itself for the next display frame.
DetectIteration(result, maxS) ==
  /\ IF result.detected
     THEN delivered < maxS /\ HandBranch(result.landmarks)
     ELSE NoHandBranch
  /\ UNCHANGED <<camError, frameVars, memoryVars, clockRunning, elapsed,
                 frames, frameParity, consumed, pointerHist, prevVMat>>

DetectLoop(maxS) ==
  /\ setupPc = "detecting"
  /\ \E result \in DetectResults : DetectIteration(result, maxS)
  /\ UNCHANGED setupPc

\* ------------------------------------------------------------- setupCV
\* getUserMedia resolves with a stream; videoRef.current is the mounted <video>.
GetUserMediaOk ==
  /\ clockRunning
  /\ setupPc = "getUserMedia"
  /\ setupPc' = "initialize"
  /\ lastOp' = "getUserMediaOk"
  /\ UNCHANGED <<camError, handDetected, gestureVars, frameVars, memoryVars,
                 clockRunning, elapsed, frames, frameParity, delivered, lastSample,
                 lastHand, sinceFrame, consumed, held, heldStart, pointerHist, prevVMat>>

\* Variant: the rejection is swallowed without a status.
GetUserMediaDeniedSilent ==
  /\ clockRunning
  /\ setupPc = "getUserMedia"
  /\ setupPc' = "denied"
  /\ lastOp' = "getUserMediaDenied"
  /\ UNCHANGED <<camError, handDetected, gestureVars, frameVars, memoryVars,
                 clockRunning, elapsed, frames, frameParity, delivered, lastSample,
                 lastHand, sinceFrame, consumed, held, heldStart, pointerHist, prevVMat>>

\* getUserMedia rejects: the .catch handler sets camError and yields null, the
\* if is skipped and setupCV returns.
GetUserMediaDenied ==
  /\ clockRunning
  /\ setupPc = "getUserMedia"
  /\ setupPc' = "denied"
  /\ camError' = "Camera restricted - Hand tracking disabled"
  /\ lastOp' = "getUserMediaDenied"
  /\ UNCHANGED <<handDetected, gestureVars, frameVars, memoryVars,
                 clockRunning, elapsed, frames, frameParity, delivered, lastSample,
                 lastHand, sinceFrame, consumed, held, heldStart, pointerHist, prevVMat>>

\* initialize resolves: detectLoop is defined and called once, synchronously.
InitializeOk(maxS) ==
  /\ setupPc = "initialize"
  /\ setupPc' = "detecting"
  /\ \E result \in DetectResults : DetectIteration(result, maxS)

\* initialize rejects: the catch block sets camError; detectLoop never runs.
InitializeFail ==
  /\ setupPc = "initialize"
  /\ setupPc' = "initFailed"
  /\ camError' = "Hand tracking service unavailable"
  /\ lastOp' = "initializeFail"
  /\ UNCHANGED <<handDetected, gestureVars, frameVars, memoryVars,
                 clockRunning, elapsed, frames, frameParity, delivered, lastSample,
                 lastHand, sinceFrame, consumed, held, heldStart, pointerHist, prevVMat>>

\* The status line the page shows.
StatusText ==
  IF camError # "null" THEN camError
  ELSE IF handDetected THEN "Magic Connected (Pinch to pulse)"
  ELSE "Wave to connect with the spirit"


\* ------------------------------------------------------------- addMemory
\* addMemory(url): textureLoader.load(url, onLoad) starts a load; nothing else
\* happens until the load resolves.  calledAt, openAtCall (the loads pending
\* when this one started) and resolvedAt are history.
AddMemory(maxL) ==
  /\ clockRunning
  /\ Len(loads) < maxL
  /\ loads' = Append(loads, [state |-> "pending", calledAt |-> elapsed,
                             openAtCall |-> Cardinality({i \in DOMAIN loads : loads[i].state = "pending"}),
                             resolvedAt |-> -1])
  /\ lastOp' = "addMemory"
  /\ UNCHANGED <<appVars, gestureVars, frameVars, memories, clockRunning, elapsed,
                 frames, frameParity, delivered, lastSample, lastHand, sinceFrame,
                 consumed, held, heldStart, pointerHist, prevVMat>>

\* Variant: birth is stamped with the time addMemory was called.
NewPanelCalledAt(id, place, now) ==
  [url |-> id, birth |-> loads[id].calledAt, opacity |-> 0, place |-> place]

\* The mesh the onLoad callback builds for load id: opacity 0, a random
\* placement, birth = clock.getElapsedTime().
NewPanel(id, place, now) ==
  [url |-> id, birth |-> now, opacity |-> 0, place |-> place]

\* The onLoad callback of load id runs.
LoadResolve(id, place) ==
  /\ loads[id].state = "pending"
  /\ memories' = Append(memories, NewPanel(id, place, elapsed))
  /\ loads' = [loads EXCEPT ![id].state = "loaded", ![id].resolvedAt = elapsed]
  /\ lastOp' = "loadResolve"
  /\ UNCHANGED <<appVars, gestureVars, frameVars, clockRunning, elapsed,
                 frames, frameParity, delivered, lastSample, lastHand, sinceFrame,
                 consumed, held, heldStart, pointerHist, prevVMat>>

\* The load of id fails: load() was given no onError, so nothing runs.
LoadFail(id) ==
  /\ loads[id].state = "pending"
  /\ loads' = [loads EXCEPT ![id].state = "failed"]
  /\ lastOp' = "loadFail"
  /\ UNCHANGED <<appVars, gestureVars, frameVars, memories, clockRunning, elapsed,
                 frames, frameParity, delivered, lastSample, lastHand, sinceFrame,
                 consumed, held, heldStart, pointerHist, prevVMat>>

\* ------------------------------------------------------------- the clock
\* Time passes between callbacks (the clock runs from the first frame on).
Tick(dt, maxT) ==
  /\ clockRunning
  /\ elapsed + dt <= maxT
  /\ elapsed' = elapsed + dt
  /\ lastOp' = "tick"
  /\ UNCHANGED <<appVars, gestureVars, frameVars, memoryVars, clockRunning,
                 frames, frameParity, delivered, lastSample, lastHand, sinceFrame,
                 consumed, held, heldStart, pointerHist, prevVMat>>

\* ------------------------------------------------------------- animate
\* Vector3.lerp(v, 0.15): this.x += (v.x - this.x) * 0.15, per axis (0.15 = 3/20).
\* Variant: the operands of the difference are swapped.
LerpAxisSwapped(c, t) == c + RoundDiv((c - t) * 3, 20)

LerpAxis(c, t) == c + RoundDiv((t - c) * 3, 20)
LerpVec(c, t) == Vec(LerpAxis(c.x, t.x), LerpAxis(c.y, t.y), LerpAxis(c.z, t.z))

\* Variant: the loop runs from the head up, so point 0 is copied into every point.
ShiftTrailAscending(t) == [j \in DOMAIN t |-> t[j % 3]]

\* for (i = trailCount - 1; i > 0; i--) copy point i-1 to point i, in place.
\* The loop runs from the tail down, so every copy reads a component the loop
\* has not yet overwritten: component j >= 3 ends as the old component j - 3.
ShiftTrail(t) == [j \in DOMAIN t |-> IF j >= 3 THEN t[j - 3] ELSE t[j]]

\* Variant: an index slip writes x into component 1 as well.
WriteHeadSlip(t, p) == [t EXCEPT ![0] = Fround(p.x), ![1] = Fround(p.x), ![2] = Fround(p.z)]

\* tPositions[0..2] = currentHandPos.current.{x, y, z}
WriteHead(t, p) == [t EXCEPT ![0] = Fround(p.x), ![1] = Fround(p.y), ![2] = Fround(p.z)]

\* Variant: the size ternary is inverted.
PinchFeedbackSwapped(pinching) ==
  IF pinching THEN [opacity |-> 800, size |-> 120] ELSE [opacity |-> 400, size |-> 250]

\* vMat.opacity = isPinching ? 0.8 : 0.4; vMat.size = isPinching ? 0.25 : 0.12
PinchFeedback(pinching) ==
  IF pinching THEN [opacity |-> 800, size |-> 250] ELSE [opacity |-> 400, size |-> 120]

\* age = elapsed - (birth || 0); if (age < 2) mat.opacity = age / 2
FadeIn(panel, now) ==
  LET age == now - panel.birth
  IN IF age < 2000 THEN [panel EXCEPT !.opacity = RoundDiv(age, 2)] ELSE panel

Min(a, b) == IF a < b THEN a ELSE b

\* One animate callback: it re-registers itself first, so it stays scheduled.
AnimateBody ==
  /\ clockRunning' = TRUE
  /\ currentHandPos' = LerpVec(currentHandPos, targetHandPos)
  /\ tPos' = WriteHead(ShiftTrail(tPos), currentHandPos')
  /\ vMat' = PinchFeedback(isPinchingRef)
  /\ memories' = [i \in DOMAIN memories |-> FadeIn(memories[i], elapsed)]
  /\ lastOp' = "animate"
  /\ frameParity' = 1 - frameParity
  /\ sinceFrame' = 0
  /\ consumed' = sinceFrame
  /\ held' = Min(held + 1, MaxFrames)
  /\ prevVMat' = vMat
  /\ UNCHANGED <<appVars, gestureVars, loads, elapsed, delivered, lastSample,
                 lastHand, heldStart>>

\* The callback with its frame counted and its pointer value recorded.
Animate(maxF) ==
  /\ frames < maxF
  /\ AnimateBody
  /\ frames' = frames + 1
  /\ pointerHist' = SubSeq(<<currentHandPos'>> \o pointerHist, 1,
                           Min(Len(pointerHist) + 1, trailCount + 1))

\* The same callback where frames are neither counted nor recorded.
AnimateLive ==
  /\ UNCHANGED <<frames, pointerHist>>
  /\ AnimateBody

\* ------------------------------------------------------------- specifications
\* The two display-frame loops (animate, detectLoop) and the load callbacks are
\* separate callbacks of one event loop: each runs to completion, in any order.

\* The gesture path with the frame loop and one image load.
Next ==
  \/ Animate(MaxFrames)
  \/ GetUserMediaOk
  \/ GetUserMediaDenied
  \/ InitializeOk(MaxSamples)
  \/ InitializeFail
  \/ DetectLoop(MaxSamples)
  \/ AddMemory(MaxLoads)
  \/ \E id \in DOMAIN loads, place \in Placements : LoadResolve(id, place)
  \/ \E id \in DOMAIN loads : LoadFail(id)

Spec == Init /\ [][Next]_vars

\* Image loads, the clock and the frame loop.
NextMemory ==
  \/ Animate(MemFrames)
  \/ AddMemory(MemLoads)
  \/ \E id \in DOMAIN loads, place \in Placements : LoadResolve(id, place)
  \/ \E id \in DOMAIN loads : LoadFail(id)
  \/ \E dt \in TickSteps : Tick(dt, MaxTime)

SpecMemory == Init /\ [][NextMemory]_vars

\* Long runs of the frame loop: more frames than the trail has points, with
\* the samples arriving during the first frames.
NextTrail ==
  \/ Animate(trailCount + TrailExtra)
  \/ GetUserMediaOk
  \/ frames <= TrailLead /\ InitializeOk(TrailSamples)
  \/ frames <= TrailLead /\ DetectLoop(TrailSamples)

SpecTrail == Init /\ [][NextTrail]_vars

\* Unbounded runs: the browser keeps calling a registered frame callback, and
\* animate registers itself again at its first line.  The detect loop is
\* followed for MaxFrames frames after the target was last written (or after
\* mount); setupCV may fail at any time.
NextLive ==
  \/ AnimateLive
  \/ GetUserMediaOk
  \/ GetUserMediaDenied
  \/ InitializeOk(LiveSamples)
  \/ InitializeFail
  \/ held < MaxFrames /\ DetectLoop(LiveSamples)

SpecLive == Init /\ [][NextLive]_vars /\ WF_vars(AnimateLive)


\* ------------------------------------------------------------- properties
\* A step in which an animate frame ran.
FrameStep == frameParity' # frameParity

Head3(t) == Vec(t[0], t[1], t[2])
FroundVec(p) == Vec(Fround(p.x), Fround(p.y), Fround(p.z))
Axes == {"x", "y", "z"}

\* |t - c|^2, exactly.
DistSq(c, t) == BigAdd(BigAdd(BigSq(t.x - c.x), BigSq(t.y - c.y)), BigSq(t.z - c.z))

\* The target the most recently delivered sample stands for.
LatestTarget ==
  IF delivered = 0 THEN Origin
  ELSE Vec(MicroToGrid((lastSample.x - 500000) * 50),
           MicroToGrid((500000 - lastSample.y) * 40), 10 * Grid)

\* The feedback the most recently delivered sample asks for.
LatestFeedback ==
  IF lastSample.pinching THEN [opacity |-> 800, size |-> 250]
  ELSE [opacity |-> 400, size |-> 120]

\* ---- C1
\* C1 as stated: after every frame the trail holds trailCount points and its
\* point 0 equals currentHandPos as computed in that frame.
C1_HeadEqualsPointer ==
  /\ DOMAIN tPos = 0..(trailCount * 3 - 1)
  /\ lastOp = "animate" => Head3(tPos) = currentHandPos

\* C1 amended: after every frame the trail holds exactly trailCount = 100
\* points and its point 0 equals that frame's currentHandPos rounded to single
\* precision (the trail is a Float32Array).
C1_HeadIsRoundedPointer ==
  /\ trailCount = 100
  /\ DOMAIN tPos = 0..(trailCount * 3 - 1)
  /\ lastOp = "animate" => Head3(tPos) = FroundVec(currentHandPos)

\* A frame ran after a sample and an image load, and the rounding shows.
C1_Witness ==
  /\ lastOp = "animate"
  /\ delivered >= 1
  /\ Len(memories) >= 1
  /\ Head3(tPos) # currentHandPos
  /\ Head3(tPos) # Origin

\* ---- C3
\* C3: after every frame the vortex material's (opacity, size) is (0.8, 0.25) if
\* the most recently delivered sample was pinching and (0.4, 0.12) otherwise,
\* also before any sample; no other value is ever taken.
C3_BinaryFeedback ==
  /\ vMat \in {[opacity |-> 400, size |-> 120], [opacity |-> 800, size |-> 250]}
  /\ lastOp = "animate" => vMat = LatestFeedback

\* The first frame after a pinching sample that followed other samples:
\* opacity goes from 0.4 to 0.8.
C3_Witness ==
  /\ lastOp = "animate"
  /\ delivered >= 2
  /\ lastSample.pinching
  /\ prevVMat = [opacity |-> 400, size |-> 120]
  /\ vMat = [opacity |-> 800, size |-> 250]

\* ---- C4
\* Thumb tip (4) and index tip (8) of landmarks h are strictly closer than limit.
TipsCloserThan(h, limit) ==
  BigLess(BigAdd(BigSq(h[4].x - h[8].x), BigSq(h[4].y - h[8].y)), BigSq(limit))

RECURSIVE BigScaleN(_, _, _)
\* b * k^n
BigScaleN(b, k, n) == IF n = 0 THEN b ELSE BigScaleN(BigScale(b, k), k, n - 1)

BigNat(n) == BigOf(<<n>>)

\* C5 as stated: on every frame of a constant target the distance to the
\* target strictly decreases, and after K frames it is at most 0.85^K times the
\* distance at the start (squared: 289^K / 400^K).
C5_StrictDecrease ==
  [][FrameStep =>
       /\ BigLess(DistSq(currentHandPos', targetHandPos'),
                  DistSq(currentHandPos, targetHandPos))
       /\ BigLeq(BigScaleN(DistSq(currentHandPos', targetHandPos'), 400, held'),
                 BigScaleN(DistSq(heldStart', targetHandPos'), 289, held'))]_vars

\* C5 amended: on every frame of a constant target the distance never
\* increases; on each axis the error keeps its sign, shrinks to 0.85 of its
\* value up to the rounding of that one step (half a grid step), and strictly
\* shrinks whenever the step 0.15 * error does not round to nothing; the
\* distance strictly decreases whenever some axis does, and a pointer already
\* at its target stays there.
C5_Contraction ==
  [][FrameStep =>
       /\ targetHandPos' = targetHandPos
       /\ \A a \in Axes :
            LET d == targetHandPos[a] - currentHandPos[a]
                e == targetHandPos'[a] - currentHandPos'[a]
            IN /\ Abs(e) <= Abs(d)
               /\ (d >= 0 => e >= 0) /\ (d <= 0 => e <= 0)
               /\ BigLeq(BigScale(BigNat(Abs(e)), 20),
                         BigAdd(BigScale(BigNat(Abs(d)), 17), BigNat(10)))
               /\ 3 * Abs(d) > 10 => Abs(e) < Abs(d)
       /\ BigLeq(DistSq(currentHandPos', targetHandPos'),
                 DistSq(currentHandPos, targetHandPos))
       /\ (\E a \in Axes : 3 * Abs(targetHandPos[a] - currentHandPos[a]) > 10) =>
            BigLess(DistSq(currentHandPos', targetHandPos'),
                    DistSq(currentHandPos, targetHandPos))
       /\ currentHandPos = targetHandPos => currentHandPos' = currentHandPos]_vars

\* Two frames or more ran on an unchanged target and brought the pointer
\* closer without reaching it.
C5_Witness ==
  /\ lastOp = "animate"
  /\ held >= 2
  /\ currentHandPos # targetHandPos
  /\ BigLess(DistSq(currentHandPos, targetHandPos), DistSq(heldStart, targetHandPos))

\* ---- C7
\* C7: a detect-loop iteration that finds no hand leaves the pointer target,
\* the pinch flag and the tree rotation as they were (the target is still the
\* last sample's, never the origin), and the next frames smooth toward it.
C7_NoHandKeepsTarget ==
  [][/\ lastOp' = "detectNoHand" =>
          /\ UNCHANGED <<targetHandPos, isPinchingRef, rotation, currentHandPos>>
          /\ ~handDetected'
          /\ delivered' > 0 => targetHandPos' = LatestTarget' /\ targetHandPos' # Origin
     /\ (FrameStep /\ lastOp = "detectNoHand") =>
          currentHandPos' = Vec(currentHandPos.x + RoundDiv((LatestTarget.x - currentHandPos.x) * 3, 20),
                                currentHandPos.y + RoundDiv((LatestTarget.y - currentHandPos.y) * 3, 20),
                                currentHandPos.z + RoundDiv((LatestTarget.z - currentHandPos.z) * 3, 20))]_vars

\* The hand was lost after a sample had set the target, and frames ran before.
C7_Witness ==
  /\ lastOp = "detectNoHand"
  /\ delivered >= 1
  /\ ~handDetected
  /\ targetHandPos # Origin
  /\ currentHandPos # Origin
  /\ currentHandPos # targetHandPos

\* ---- C9
\* C9: every frame smooths toward the target of the most recently delivered
\* sample and shows its pinch flag, whether zero, one or several samples came
\* since the previous frame; the pointer, the trail and the material change in
\* frames only, so a sample overwritten before a frame leaves no trace in them.
C9_LastWriteWins ==
  [][/\ FrameStep =>
          /\ currentHandPos' = LerpVec(currentHandPos, LatestTarget)
          /\ Head3(tPos') = FroundVec(currentHandPos')
          /\ vMat' = LatestFeedback
          /\ targetHandPos' = LatestTarget /\ isPinchingRef' = lastSample.pinching
     /\ ~FrameStep => UNCHANGED <<currentHandPos, tPos, vMat>>]_vars

\* A frame ran after two samples had been delivered since the frame before.
C9_Witness ==
  /\ lastOp = "animate"
  /\ consumed = 2
  /\ delivered = 2
  /\ lastSample.pinching
  /\ vMat.opacity = 800
  /\ currentHandPos # Origin


\* ---- C2
\* C2: after every frame a panel's opacity is 0 at age 0, 0.5 at age 1 and 1
\* at every age >= 2 (age = elapsed - birth), however the frames are spaced.
C2_FadeRamp ==
  lastOp = "animate" =>
    \A i \in DOMAIN memories :
      LET age == elapsed - memories[i].birth
      IN /\ age = 0 => memories[i].opacity = 0
         /\ age = 1000 => memories[i].opacity = 500
         /\ age >= 2000 => memories[i].opacity = 1000

\* ---- C6
\* Panels mem are exactly the resolved loads of lds, one each, born when resolved.
PanelsMatchLoads(mem, lds) ==
  /\ Len(mem) = Cardinality({id \in DOMAIN lds : lds[id].state = "loaded"})
  /\ \A i \in DOMAIN mem :
       /\ mem[i].url \in DOMAIN lds
       /\ lds[mem[i].url].state = "loaded"
       /\ mem[i].birth = lds[mem[i].url].resolvedAt
       /\ mem[i].place \in Placements
       /\ \A j \in DOMAIN mem : j # i => mem[j].url # mem[i].url

\* C6: every resolved load, and no other, has one panel of its own with its own
\* placement and the clock time of its own resolution as birth, in the order
\* of resolution; a resolution adds one panel and leaves the others alone; a
\* frame sets each panel's opacity from that panel's birth only; a failed load,
\* an addMemory call or the passing of time change no panel.
C6_IndependentPanels ==
  [][/\ PanelsMatchLoads(memories', loads')
     /\ FrameStep =>
          /\ Len(memories') = Len(memories)
          /\ \A i \in DOMAIN memories :
               memories'[i] =
                 [memories[i] EXCEPT !.opacity =
                    IF elapsed - memories[i].birth < 2000
                    THEN RoundDiv(elapsed - memories[i].birth, 2) ELSE @]
     /\ lastOp' = "loadResolve" =>
          /\ Len(memories') = Len(memories) + 1
          /\ SubSeq(memories', 1, Len(memories)) = memories
          /\ memories'[Len(memories')].birth = elapsed
          /\ memories'[Len(memories')].opacity = 0
     /\ lastOp' \in {"loadFail", "addMemory", "tick"} => memories' = memories]_vars

\* addMemory was called twice before either load resolved; the second load
\* resolved first, at another time and place; frames ran in between.
C6_Witness ==
  /\ lastOp = "animate"
  /\ Len(memories) = 2
  /\ loads[2].openAtCall = 1
  /\ memories[1].url = 2 /\ memories[2].url = 1
  /\ loads[1].calledAt < loads[2].resolvedAt
  /\ memories[1].birth # memories[2].birth
  /\ memories[1].place # memories[2].place
  /\ memories[1].opacity # memories[2].opacity
  /\ memories[2].opacity > 0

\* ---- C8
Degraded == setupPc \in {"denied", "initFailed"}

\* C8: once camera access is denied or the detector fails to initialize, a
\* status string is set and shown, the detect loop never runs (no sample is
\* ever delivered), setup is not tried again, the only callbacks that still
\* run are frames, and frames keep running for ever.
C8_DegradedKeepsRendering ==
  /\ [](Degraded =>
          /\ camError # "null"
          /\ StatusText = camError
          /\ delivered = 0
          /\ lastHand = NoLandmarks
          /\ targetHandPos = Origin /\ ~isPinchingRef /\ ~handDetected)
  /\ [][Degraded => setupPc' = setupPc /\ camError' = camError /\ FrameStep]_vars
  /\ \A b \in {0, 1} : (Degraded /\ frameParity = b) ~> (frameParity # b)

\* The detector failed to initialize and a frame has run since.
C8_Witness ==
  /\ setupPc = "initFailed"
  /\ camError = "Hand tracking service unavailable"
  /\ StatusText = camError
  /\ lastOp = "animate"

\* ---- C10
Point(t, i) == Vec(t[3 * i], t[3 * i + 1], t[3 * i + 2])

\* C10 as stated: after k frames point i < min(k, N) is the currentHandPos of
\* frame k - i and every point i >= k is still (0, 0, 0).
C10_DelayLineExact ==
  \A i \in 0..(trailCount - 1) :
    Point(tPos, i) = IF i < frames THEN pointerHist[i + 1] ELSE Origin

\* C10 amended: after k frames point i < min(k, N) is the currentHandPos of
\* frame k - i rounded to single precision and every point i >= k is still
\* (0, 0, 0); the trail has N points and no more, so the value of frame k - N
\* has no point left.
C10_DelayLineRounded ==
  /\ DOMAIN tPos = 0..(trailCount * 3 - 1)
  /\ Len(pointerHist) = Min(frames, trailCount + 1)
  /\ \A i \in 0..(trailCount - 1) :
       Point(tPos, i) = IF i < frames THEN FroundVec(pointerHist[i + 1]) ELSE Origin

\* More than N frames after a frame wrote a non-zero value, that value is in
\* no point of the trail, whose last point is non-zero.
C10_Witness ==
  /\ frames > trailCount + 1
  /\ pointerHist[trailCount + 1] # Origin
  /\ \A i \in 0..(trailCount - 1) : Point(tPos, i) # FroundVec(pointerHist[trailCount + 1])
  /\ Point(tPos, trailCount - 1) # Origin
  /\ Head3(tPos) # currentHandPos

=============================================================================
